---- MODULE Spec2Model ----
(***************************************************************************)
(* The OpenTelemetry callback handler of langchain.js-instrumentor         *)
(* (OpenTelemetryCallbackHandler): the registry spanMapping from run       *)
(* identifiers to SpanHolder records, and the handlers that create, enrich *)
(* and end spans as LangChain lifecycle events arrive.                     *)
(*                                                                         *)
(* A span is an object of the tracing API; the handler only calls methods  *)
(* on it.  The model keeps, for every span the tracer has handed out, the  *)
(* ordered log of the calls the handler made on it (setAttribute,          *)
(* setStatus, recordException, end), as a recording tracer would.          *)
(***************************************************************************)
EXTENDS Naturals, Sequences, FiniteSets

(* ---------------------------------------------------------------- bounds *)

\* Run identifiers are 1..MaxRuns.
MaxRuns == 2

\* Number of handler calls in one behaviour of Spec.
MaxEvents == 2

\* Number of handler calls in one behaviour of SpecDeep.
MaxDeepEvents == 4

\* Number of handler calls in one behaviour of a payload specification.
MaxPayloadCalls == 1

\* Number of handler calls in one behaviour of SpecTree.
MaxTreeEvents == 2

\* Length of a callback manager's handler list in SpecRegistration.
MaxHandlers == 3

\* Handler objects one instrumentation creates in SpecRegistration.
MaxInstances == 2

RunIds == 1..MaxRuns

\* parentRunId is optional: NoRun stands for undefined.
NoRun == 0

(* ------------------------------------------------------- JavaScript values *)

\* Scalar payload values are strings; undefined and null are two reserved
\* ones, and a number n is written "#n" so that 0 differs from "0".
Undefined == "<undefined>"

Null == "<null>"

\* JavaScript truthiness of a scalar (used by ||, &&, if).
Truthy(v) == v \notin {Undefined, Null, "", "#0", "#false"}

\* a || b
Or(a, b) == IF Truthy(a) THEN a ELSE b

(* ------------------------------------------------------------------ spans *)

\* tracer.startSpan(name, {kind}, ctx): a fresh span, child of parentSpan
\* (an index into the span table, 0 for a root).  run is the runId the span
\* was created for (bookkeeping of the model, not a field of the span).
NewSpan(name, kind, parentSpan, run) ==
  [name |-> name, kind |-> kind, parent |-> parentSpan, run |-> run, log |-> <<>>]

\* One method call on span i, appended to its log.
SpanCall(sp, i, call) == [sp EXCEPT ![i].log = Append(@, call)]

\* span.end()
SpanEnd(sp, i) == SpanCall(sp, i, <<"end">>)

\* span.setStatus({code: ERROR, message})
SpanSetStatus(sp, i, message) == SpanCall(sp, i, <<"setStatus", "ERROR", message>>)

\* span.recordException(error)
SpanRecordException(sp, i, message) == SpanCall(sp, i, <<"recordException", message>>)

\* _setSpanAttribute(span, name, value)
SetSpanAttribute(sp, i, name, value) ==
  IF value # Undefined /\ value # Null /\ value # ""
    THEN SpanCall(sp, i, <<"setAttribute", name, value>>)
    ELSE sp

\* What the log of a span says.
EndCalls(s) == Cardinality({k \in 1..Len(s.log) : s.log[k][1] = "end"})

IsEnded(s) == EndCalls(s) > 0

HasErrorStatus(s) == \E k \in 1..Len(s.log) : s.log[k][1] = "setStatus"

(* --------------------------------------------------------------- payloads *)

\* A plain object passed where the handler stringifies its argument.
ObjectValue == "<object>"

\* String(v) of a scalar or a plain object.
ToStr(v) ==
  IF v = Undefined THEN "undefined"
  ELSE IF v = Null THEN "null"
  ELSE IF v = "#0" THEN "0"
  ELSE IF v = "#0.7" THEN "0.7"
  ELSE IF v = "#5" THEN "5"
  ELSE IF v = "#12" THEN "12"
  ELSE IF v = "#34" THEN "34"
  ELSE IF v = "#false" THEN "false"
  ELSE IF v = ObjectValue THEN "[object Object]"
  ELSE v

\* An object is a record that carries every field the handler reads; a field
\* the object lacks holds Undefined.  present = FALSE is an object that was
\* not passed at all (undefined).

\* invocation_params.params
NoGenParams ==
  [present |-> FALSE, max_tokens |-> Undefined, max_new_tokens |-> Undefined,
   temperature |-> Undefined, top_p |-> Undefined]

\* invocation_params
NoInvocationParams ==
  [present |-> FALSE, model_id |-> Undefined, base_model_id |-> Undefined,
   params |-> NoGenParams, max_tokens |-> Undefined, max_new_tokens |-> Undefined,
   temperature |-> Undefined, top_p |-> Undefined]

\* extraParams of a model start event
NoExtraParams ==
  [present |-> FALSE, name |-> Undefined, model_id |-> Undefined,
   base_model_id |-> Undefined, invocation_params |-> NoInvocationParams,
   max_tokens |-> Undefined, max_new_tokens |-> Undefined,
   temperature |-> Undefined, top_p |-> Undefined]

EmptyExtraParams == [NoExtraParams EXCEPT !.present = TRUE]

\* A metadata value with its JavaScript type: t is one of "undefined",
\* "null", "boolean", "number", "string", "buffer", "array", "object"; v is
\* the text String(value) gives for it (for a buffer, its contents); items
\* are the elements of an array.
Value(t, v) == [t |-> t, v |-> v, items |-> <<>>]

ArrayValue(items) == [t |-> "array", v |-> "", items |-> items]

JsUndefined == Value("undefined", "undefined")

JsNull == Value("null", "null")

StringValue(s) == Value("string", s)

\* A map without entries.
NoEntries == [k \in {} |-> JsNull]

\* metadata of a start event: the two fields the handler reads by name, and
\* the other entries of the map.
NoMetadata ==
  [present |-> FALSE, invocation_params |-> NoInvocationParams, agent_name |-> Undefined,
   entries |-> NoEntries]

\* The serialized component descriptor (llm, chain, tool).  hasId is
\* ('id' in serialized); id is the identifier path.
NoSerialized ==
  [present |-> FALSE, name |-> Undefined, kwargsName |-> Undefined,
   hasId |-> FALSE, id |-> <<>>]

\* A usage block of an LLM result.
NoUsage ==
  [present |-> FALSE, prompt_tokens |-> Undefined, input_token_count |-> Undefined,
   input_tokens |-> Undefined, completion_tokens |-> Undefined,
   generated_token_count |-> Undefined, output_tokens |-> Undefined]

\* output.llmOutput
NoLLMOutput ==
  [present |-> FALSE, model_name |-> Undefined, model_id |-> Undefined,
   id |-> Undefined, token_usage |-> NoUsage, usage |-> NoUsage]

(* --------------------------------------------------------------- registry *)

\* new SpanHolder(span, [], requestModel).  startTime (Date.now()) is written
\* by the constructor and read nowhere; it is left out.
SpanHolder(span, requestModel) ==
  [span |-> span, children |-> <<>>, requestModel |-> requestModel]

\* this.spanMapping.has(runId)
Has(m, runId) == runId \in DOMAIN m

\* this.spanMapping.set(runId, holder)
MapSet(m, runId, holder) ==
  [r \in DOMAIN m \cup {runId} |-> IF r = runId THEN holder ELSE m[r]]

\* What a handler leaves behind: the registry, the span table, and whether
\* it raised to its caller.
Result(m, sp, threw) == [m |-> m, sp |-> sp, threw |-> threw, assoc |-> NoEntries]

\* The result of a handler that called _createSpan, which bound assoc as
\* association properties on the way.
Bound(res, assoc) == [res EXCEPT !.assoc = assoc]

\* The children loop of _endSpan: end the span of every child that has a record.
RECURSIVE EndChildren(_, _, _)
EndChildren(m, sp, children) ==
  IF children = <<>> THEN sp
  ELSE EndChildren(m,
                   IF Has(m, Head(children)) THEN SpanEnd(sp, m[Head(children)].span) ELSE sp,
                   Tail(children))

\* _endSpan without its final span.end(): the children are ended, the span
\* itself is left open.
EndSpanChildrenOnly(m, sp, span, runId) ==
  IF Has(m, runId)
    THEN EndChildren(m, sp, m[runId].children)
    ELSE sp

\* The children loop that goes one level further: the children of every
\* child are ended.
RECURSIVE EndGrandchildren(_, _, _)
EndGrandchildren(m, sp, children) ==
  IF children = <<>> THEN sp
  ELSE EndGrandchildren(m,
                        IF Has(m, Head(children))
                          THEN EndChildren(m, sp, m[Head(children)].children)
                          ELSE sp,
                        Tail(children))

\* _endSpan that cascades two levels deep.
EndSpanTwoLevels(m, sp, span, runId) ==
  IF Has(m, runId)
    THEN SpanEnd(EndChildren(m, EndGrandchildren(m, sp, m[runId].children),
                             m[runId].children),
                 span)
    ELSE sp

\* _endSpan(span, runId)
EndSpan(m, sp, span, runId) ==
  IF Has(m, runId)
    THEN SpanEnd(EndChildren(m, sp, m[runId].children), span)
    ELSE sp

\* The parent lookup that never finds the parent: every span is started
\* without a parent context.
ParentSpanNone(m, parentRunId) == 0

\* The parent lookup of _createSpan (line 148): the span table index of the
\* parent span, 0 when the span is started without a parent context.
ParentSpanOf(m, parentRunId) ==
  IF parentRunId # NoRun /\ Has(m, parentRunId) THEN m[parentRunId].span ELSE 0

\* The modelId that _createSpan stores in the new SpanHolder (lines 156-164).
MetadataModelId(metadata) ==
  IF metadata.invocation_params.present
    THEN IF Truthy(metadata.invocation_params.base_model_id)
           THEN metadata.invocation_params.base_model_id
         ELSE IF Truthy(metadata.invocation_params.model_id)
           THEN metadata.invocation_params.model_id
         ELSE "unknown"
    ELSE "unknown"

\* String(value)
RECURSIVE StringOf(_)
\* array.join(","): null and undefined elements give the empty string.
RECURSIVE JoinItems(_)
JoinItems(items) ==
  IF items = <<>> THEN ""
  ELSE LET h == IF Head(items).t \in {"null", "undefined"} THEN "" ELSE StringOf(Head(items))
       IN  IF Len(items) = 1 THEN h ELSE h \o "," \o JoinItems(Tail(items))

StringOf(value) == IF value.t = "array" THEN JoinItems(value.items) ELSE value.v

\* _sanitizeMetadataValue without String() around the elements of an array.
RECURSIVE SanitizeElementsKept(_)
SanitizeElementsKept(value) ==
  IF value.t \in {"null", "undefined"} THEN JsNull
  ELSE IF value.t \in {"boolean", "string", "number", "buffer"} THEN value
  ELSE IF value.t = "array"
    THEN ArrayValue([k \in 1..Len(value.items) |-> SanitizeElementsKept(value.items[k])])
  ELSE StringValue(StringOf(value))

\* _sanitizeMetadataValue(value)
RECURSIVE SanitizeMetadataValue(_)
SanitizeMetadataValue(value) ==
  IF value.t \in {"null", "undefined"} THEN JsNull
  ELSE IF value.t \in {"boolean", "string", "number", "buffer"} THEN value
  ELSE IF value.t = "array"
    THEN ArrayValue([k \in 1..Len(value.items) |->
                       StringValue(StringOf(SanitizeMetadataValue(value.items[k])))])
  ELSE StringValue(StringOf(value))

\* Object.entries(metadata || {}): the named fields that are there, and the
\* other entries.
MetadataEntries(metadata) ==
  IF ~metadata.present THEN NoEntries
  ELSE LET named == (IF metadata.agent_name # Undefined THEN {"agent_name"} ELSE {})
                    \cup (IF metadata.invocation_params.present
                            THEN {"invocation_params"} ELSE {})
       IN  [k \in named \cup DOMAIN metadata.entries |->
              IF k \in DOMAIN metadata.entries THEN metadata.entries[k]
              ELSE IF k = "invocation_params" THEN Value("object", "[object Object]")
              ELSE IF metadata.agent_name = Null THEN JsNull
              ELSE StringValue(metadata.agent_name)]

\* The sanitizedMetadata that _createSpan builds (lines 129-136) and binds as
\* association properties around an empty callback (lines 138-144).
SanitizedMetadata(metadata) ==
  LET entries == MetadataEntries(metadata)
  IN  [k \in {e \in DOMAIN entries : entries[e].t \notin {"null", "undefined"}} |->
         SanitizeMetadataValue(entries[k])]

\* The children push that puts the new run in front of the list.
PushChildInFront(m, runId, parentRunId) ==
  IF parentRunId # NoRun /\ Has(m, parentRunId)
    THEN [m EXCEPT ![parentRunId].children = <<runId>> \o @]
    ELSE m

\* The children push of _createSpan (lines 168-170), after the record of
\* runId has been set.
PushChild(m, runId, parentRunId) ==
  IF parentRunId # NoRun /\ Has(m, parentRunId)
    THEN [m EXCEPT ![parentRunId].children = Append(@, runId)]
    ELSE m

\* _createSpan(runId, parentRunId, spanName, kind, metadata).  The sanitized
\* metadata (assoc) is only bound for the duration of an empty callback
\* (context.with(..., () => {})) and changes nothing.  span is the new span.
CreateSpan(m, sp, runId, parentRunId, spanName, kind, metadata) ==
  LET span == Len(sp) + 1
      sp1  == Append(sp, NewSpan(spanName, kind, ParentSpanOf(m, parentRunId), runId))
      m1   == MapSet(m, runId, SpanHolder(span, MetadataModelId(metadata)))
  IN  [m |-> PushChild(m1, runId, parentRunId), sp |-> sp1, span |-> span,
       assoc |-> SanitizedMetadata(metadata)]

\* The model search that looks at both direct fields before it looks under
\* invocation_params.
RequestModelDirectFirst(kwargs) ==
  IF kwargs.model_id # Undefined
    THEN [found |-> TRUE, model |-> kwargs.model_id]
  ELSE IF kwargs.base_model_id # Undefined
    THEN [found |-> TRUE, model |-> kwargs.base_model_id]
  ELSE IF kwargs.invocation_params.model_id # Undefined
    THEN [found |-> TRUE, model |-> kwargs.invocation_params.model_id]
  ELSE IF kwargs.invocation_params.base_model_id # Undefined
    THEN [found |-> TRUE, model |-> kwargs.invocation_params.base_model_id]
  ELSE [found |-> FALSE, model |-> Undefined]

\* The model search of _setRequestParams (lines 34-44): the first of
\* model_id, base_model_id that is defined directly or under
\* invocation_params; found = FALSE when the loop ends without a break.
RequestModel(kwargs) ==
  IF kwargs.model_id # Undefined
    THEN [found |-> TRUE, model |-> kwargs.model_id]
  ELSE IF kwargs.invocation_params.model_id # Undefined
    THEN [found |-> TRUE, model |-> kwargs.invocation_params.model_id]
  ELSE IF kwargs.base_model_id # Undefined
    THEN [found |-> TRUE, model |-> kwargs.base_model_id]
  ELSE IF kwargs.invocation_params.base_model_id # Undefined
    THEN [found |-> TRUE, model |-> kwargs.invocation_params.base_model_id]
  ELSE [found |-> FALSE, model |-> Undefined]

\* The params object of _setRequestParams (lines 53-55).
GenParams(kwargs) ==
  IF kwargs.invocation_params.present
    THEN IF kwargs.invocation_params.params.present
           THEN kwargs.invocation_params.params
           ELSE [present |-> TRUE,
                 max_tokens |-> kwargs.invocation_params.max_tokens,
                 max_new_tokens |-> kwargs.invocation_params.max_new_tokens,
                 temperature |-> kwargs.invocation_params.temperature,
                 top_p |-> kwargs.invocation_params.top_p]
    ELSE [present |-> TRUE, max_tokens |-> kwargs.max_tokens,
          max_new_tokens |-> kwargs.max_new_tokens,
          temperature |-> kwargs.temperature, top_p |-> kwargs.top_p]

\* _setRequestParams that, when the search finds no model, reports the model
\* the record holds.
SetRequestParamsOfRecord(m, sp, span, kwargs, runId) ==
  LET rm     == RequestModel(kwargs)
      m1     == IF rm.found THEN [m EXCEPT ![runId].requestModel = rm.model] ELSE m
      model  == m1[runId].requestModel
      params == GenParams(kwargs)
      sp1    == SetSpanAttribute(sp, span, "gen_ai.request.model", model)
      sp2    == SetSpanAttribute(sp1, span, "gen_ai.response.model", model)
      sp3    == SetSpanAttribute(sp2, span, "gen_ai.request.max_tokens",
                                 Or(params.max_tokens, params.max_new_tokens))
      sp4    == SetSpanAttribute(sp3, span, "gen_ai.request.temperature", params.temperature)
  IN  [m |-> m1, sp |-> SetSpanAttribute(sp4, span, "gen_ai.request.top_p", params.top_p)]

\* _setRequestParams(span, kwargs, spanHolder), spanHolder being the record
\* of runId.
SetRequestParams(m, sp, span, kwargs, runId) ==
  LET rm     == RequestModel(kwargs)
      m1     == IF rm.found THEN [m EXCEPT ![runId].requestModel = rm.model] ELSE m
      model  == IF m1[runId].requestModel = Undefined THEN Undefined ELSE rm.model
      params == GenParams(kwargs)
      sp1    == SetSpanAttribute(sp, span, "gen_ai.request.model", model)
      sp2    == SetSpanAttribute(sp1, span, "gen_ai.response.model", model)
      sp3    == SetSpanAttribute(sp2, span, "gen_ai.request.max_tokens",
                                 Or(params.max_tokens, params.max_new_tokens))
      sp4    == SetSpanAttribute(sp3, span, "gen_ai.request.temperature", params.temperature)
  IN  [m |-> m1, sp |-> SetSpanAttribute(sp4, span, "gen_ai.request.top_p", params.top_p)]

\* _getNameFromCallback(serialized, tags, metadata, kwargs): threw when it
\* reads a property of an undefined descriptor.
GetNameFromCallback(serialized, kwargs) ==
  IF serialized.present /\ Truthy(serialized.kwargsName)
    THEN [threw |-> FALSE, name |-> serialized.kwargsName]
  ELSE IF Truthy(kwargs.name)
    THEN [threw |-> FALSE, name |-> kwargs.name]
  ELSE IF ~serialized.present
    THEN [threw |-> TRUE, name |-> Undefined]
  ELSE IF Truthy(serialized.name)
    THEN [threw |-> FALSE, name |-> serialized.name]
  ELSE IF serialized.hasId
    THEN [threw |-> FALSE,
          name |-> IF serialized.id = <<>> THEN Undefined
                   ELSE serialized.id[Len(serialized.id)]]
  ELSE [threw |-> FALSE, name |-> "unknown"]

(* --------------------------------------------------------------- handlers *)

\* The span names.  The source writes each template literal with an escaped
\* dollar sign (`\${name}`), so nothing is interpolated: the name of the
\* component is computed and then not used.
ChatSpanName(name) == "${GenAIOperationValues.CHAT} ${name}"

ChainSpanName(name) == "chain ${name}"

ToolSpanName(name) == "execute_tool ${name}"

\* The guard every lifecycle handler starts with:
\* context.active().getValue(_SUPPRESS_INSTRUMENTATION_KEY).
Suppressed(sup) == sup

\* An identifier path as an attribute value.
RECURSIVE JoinPath(_)
JoinPath(id) ==
  IF id = <<>> THEN ""
  ELSE IF Len(id) = 1 THEN id[1]
  ELSE id[1] \o "," \o JoinPath(Tail(id))

\* _handleError that, for a runId without a record, starts a span of its own
\* to report the error instead of returning.
HandleErrorOrphanSpan(m, sp, sup, error, runId) ==
  IF Suppressed(sup) THEN Result(m, sp, FALSE)
  ELSE IF ~error.present THEN Result(m, sp, TRUE)
  ELSE LET c    == IF Has(m, runId) THEN [m |-> m, sp |-> sp, span |-> m[runId].span]
                   ELSE CreateSpan(m, sp, runId, NoRun, "error", "INTERNAL", NoMetadata)
           sp1  == SpanSetStatus(c.sp, c.span, error.message)
           sp2  == SpanRecordException(sp1, c.span, error.message)
       IN  Result(c.m, EndSpan(c.m, sp2, c.span, runId), FALSE)

\* _handleError(error, runId, parentRunId, kwargs)
HandleError(m, sp, sup, error, runId) ==
  IF Suppressed(sup) THEN Result(m, sp, FALSE)
  ELSE IF ~Has(m, runId) THEN Result(m, sp, FALSE)
  ELSE IF ~error.present THEN Result(m, sp, TRUE)
  ELSE LET span == m[runId].span
           sp1  == SpanSetStatus(sp, span, error.message)
           sp2  == SpanRecordException(sp1, span, error.message)
       IN  Result(m, EndSpan(m, sp2, span, runId), FALSE)

\* handleChatModelStart(llm, messages, runId, parentRunId, extraParams, tags, metadata)
HandleChatModelStart(m, sp, sup, llm, runId, parentRunId, extraParams, metadata) ==
  IF Suppressed(sup) THEN Result(m, sp, FALSE)
  ELSE IF ~llm.present THEN Result(m, sp, TRUE)
  ELSE LET modelId == extraParams.invocation_params.model_id
           name    == IF Truthy(modelId) THEN modelId ELSE llm.name
           c       == CreateSpan(m, sp, runId, parentRunId, ChatSpanName(name),
                                 "INTERNAL", metadata)
       IN  IF extraParams.present
             THEN LET r == SetRequestParams(c.m, c.sp, c.span, extraParams, runId)
                  IN  Bound(Result(r.m, r.sp, FALSE), c.assoc)
             ELSE Bound(Result(c.m, c.sp, FALSE), c.assoc)

\* handleLLMStart(llm, prompt, runId, parentRunId, extraParams, tags, metadata)
HandleLLMStart(m, sp, sup, llm, runId, parentRunId, extraParams, metadata) ==
  IF Suppressed(sup) THEN Result(m, sp, FALSE)
  ELSE LET modelId == extraParams.invocation_params.model_id
           n       == GetNameFromCallback(llm, extraParams)
           name    == IF Truthy(modelId) THEN modelId ELSE n.name
           c       == CreateSpan(m, sp, runId, parentRunId, ChatSpanName(name),
                                 "CLIENT", metadata)
           sp1     == SetSpanAttribute(c.sp, c.span, "gen_ai.operation.name", "chat")
           r       == SetRequestParams(c.m, sp1, c.span, extraParams, runId)
           sp2     == SetSpanAttribute(r.sp, c.span, "gen_ai.system", llm.name)
       IN  IF n.threw THEN Result(m, sp, TRUE)
           ELSE IF ~llm.present THEN Bound(Result(r.m, r.sp, TRUE), c.assoc)
           ELSE Bound(Result(r.m,
                             SetSpanAttribute(sp2, c.span, "gen_ai.operation.name",
                                              "text_completion"),
                             FALSE),
                      c.assoc)

\* The usage block handleLLMEnd reads: token_usage || usage.
TokenUsage(llmOutput) ==
  IF llmOutput.token_usage.present THEN llmOutput.token_usage ELSE llmOutput.usage

\* handleLLMEnd(output, runId)
HandleLLMEnd(m, sp, sup, output, runId) ==
  IF Suppressed(sup) THEN Result(m, sp, FALSE)
  ELSE IF ~Has(m, runId) THEN Result(m, sp, FALSE)
  ELSE IF ~output.present THEN Result(m, sp, TRUE)
  ELSE LET span      == m[runId].span
           lo        == output.llmOutput
           modelName == Or(lo.model_name, lo.model_id)
           sp1       == IF Truthy(modelName)
                          THEN SetSpanAttribute(sp, span, "gen_ai.response.model", modelName)
                          ELSE sp
           sp2       == IF lo.id # Undefined /\ lo.id # ""
                          THEN SetSpanAttribute(sp1, span, "gen_ai.response.id", lo.id)
                          ELSE sp1
           tu        == TokenUsage(lo)
           sp3       == SetSpanAttribute(sp2, span, "gen_ai.usage.input_tokens",
                          Or(tu.prompt_tokens, Or(tu.input_token_count, tu.input_tokens)))
           sp4       == SetSpanAttribute(sp3, span, "gen_ai.usage.output_tokens",
                          Or(tu.completion_tokens,
                             Or(tu.generated_token_count, tu.output_tokens)))
           attrs     == IF ~lo.present THEN sp ELSE IF tu.present THEN sp4 ELSE sp2
       IN  Result(m, EndSpan(m, attrs, span, runId), FALSE)

\* handleChainStart(chain, inputs, runId, parentRunId, tags, metadata)
HandleChainStart(m, sp, sup, chain, inputs, runId, parentRunId, metadata) ==
  IF Suppressed(sup) THEN Result(m, sp, FALSE)
  ELSE LET n   == GetNameFromCallback(chain, EmptyExtraParams)
           c   == CreateSpan(m, sp, runId, parentRunId, ChainSpanName(n.name),
                             "INTERNAL", metadata)
           sp1 == IF metadata.present /\ Truthy(metadata.agent_name)
                    THEN SetSpanAttribute(c.sp, c.span, "gen_ai.agent.name",
                                          metadata.agent_name)
                    ELSE c.sp
       IN  IF n.threw THEN Result(m, sp, TRUE)
           ELSE Bound(Result(c.m,
                             SetSpanAttribute(sp1, c.span, "gen_ai.prompt", ToStr(inputs)),
                             FALSE),
                      c.assoc)

\* handleChainEnd(outputs, runId)
HandleChainEnd(m, sp, sup, outputs, runId) ==
  IF Suppressed(sup) THEN Result(m, sp, FALSE)
  ELSE IF ~Has(m, runId) THEN Result(m, sp, FALSE)
  ELSE LET span == m[runId].span
           sp1  == SetSpanAttribute(sp, span, "gen_ai.completion", ToStr(outputs))
       IN  Result(m, EndSpan(m, sp1, span, runId), FALSE)

\* handleToolStart(tool, input, runId, parentRunId, tags, metadata)
HandleToolStart(m, sp, sup, tool, input, runId, parentRunId, metadata) ==
  IF Suppressed(sup) THEN Result(m, sp, FALSE)
  ELSE LET n   == GetNameFromCallback(tool, EmptyExtraParams)
           c   == CreateSpan(m, sp, runId, parentRunId, ToolSpanName(n.name),
                             "INTERNAL", metadata)
           sp1 == SetSpanAttribute(c.sp, c.span, "gen_ai.tool.input", input)
           sp2 == IF tool.hasId
                    THEN SetSpanAttribute(sp1, c.span, "gen_ai.tool.call_id",
                                          "[" \o JoinPath(tool.id) \o "]")
                    ELSE sp1
           sp3 == SetSpanAttribute(sp2, c.span, "gen_ai.tool.name", n.name)
       IN  IF n.threw THEN Result(m, sp, TRUE)
           ELSE Bound(Result(c.m,
                             SetSpanAttribute(sp3, c.span, "gen_ai.operation.name",
                                              "execute_tool"),
                             FALSE),
                      c.assoc)

\* handleToolEnd(output, runId)
HandleToolEnd(m, sp, sup, output, runId) ==
  IF Suppressed(sup) THEN Result(m, sp, FALSE)
  ELSE IF ~Has(m, runId) THEN Result(m, sp, FALSE)
  ELSE LET span == m[runId].span
           sp1  == SetSpanAttribute(sp, span, "gen_ai.tool.output", ToStr(output))
       IN  Result(m, EndSpan(m, sp1, span, runId), FALSE)

\* handleAgentAction(action, runId): no suppression guard in the source.
HandleAgentAction(m, sp, sup, action, runId) ==
  IF ~action.present THEN Result(m, sp, TRUE)
  ELSE IF Has(m, runId)
    THEN LET span == m[runId].span
             sp1  == SetSpanAttribute(sp, span, "gen_ai.agent.tool.input", action.toolInput)
             sp2  == SetSpanAttribute(sp1, span, "gen_ai.agent.tool.name", action.tool)
         IN  Result(m, SetSpanAttribute(sp2, span, "gen_ai.operation.name", "invoke_agent"),
                    FALSE)
    ELSE Result(m, sp, FALSE)

\* handleAgentEnd that treats the agent finish as the end of the run and
\* ends its span.
HandleAgentEndClosing(m, sp, sup, action, runId) ==
  IF Has(m, runId)
    THEN IF ~action.present \/ ~action.hasReturnValues THEN Result(m, sp, TRUE)
         ELSE LET sp1 == SetSpanAttribute(sp, m[runId].span, "gen_ai.agent.tool.output",
                                          action.output)
              IN  Result(m, EndSpan(m, sp1, m[runId].span, runId), FALSE)
    ELSE Result(m, sp, FALSE)

\* handleAgentEnd(action, runId): no suppression guard in the source;
\* action.returnValues.output raises when returnValues is missing.
HandleAgentEnd(m, sp, sup, action, runId) ==
  IF Has(m, runId)
    THEN IF ~action.present \/ ~action.hasReturnValues THEN Result(m, sp, TRUE)
         ELSE Result(m, SetSpanAttribute(sp, m[runId].span, "gen_ai.agent.tool.output",
                                         action.output),
                     FALSE)
    ELSE Result(m, sp, FALSE)

(* ----------------------------------------------------------- registration *)

\* The two classes exported under the name OpenTelemetryCallbackHandler:
\* instrumentation.ts imports the one of ./callback-handler.js,
\* langchain-instrumentation.ts the one of ./opentelemetry-callback-handler.
CallbackHandlerClass == "callback-handler.OpenTelemetryCallbackHandler"

OTelCallbackHandlerClass == "opentelemetry-callback-handler.OpenTelemetryCallbackHandler"

\* Any other handler an application registers.
UserHandlerClass == "BaseCallbackHandler"

\* An object: its class and which of the objects of that class it is.
Instance(class, n) == [class |-> class, n |-> n]

\* _callbackHandler = null
NoHandler == Instance("null", 0)

\* h instanceof class
InstanceOf(h, class) == h.class = class

\* list.some(h => h instanceof class)
Some(list, class) == \E i \in DOMAIN list : InstanceOf(list[i], class)

\* instrumentation.ts: the function enable() hands to
\* CallbackManager.configure, applied to the handlers already registered.
EnableHandlers(existingHandlers, ownHandler) ==
  IF Some(existingHandlers, CallbackHandlerClass)
    THEN existingHandlers
    ELSE Append(existingHandlers, ownHandler)

\* CallbackManager.prototype.addHandler before it is wrapped.
OriginalAddHandler(list, h) == Append(list, h)

\* langchain-instrumentation.ts: patchedAddHandler(handler, ...args).
PatchedAddHandlerTo(list, h) ==
  IF InstanceOf(h, OTelCallbackHandlerClass) /\ Some(list, OTelCallbackHandlerClass)
    THEN list
    ELSE OriginalAddHandler(list, h)

\* langchain-instrumentation.ts: patchedConstructor(...args); the original
\* constructor leaves the handlers its arguments give.
PatchedConstructorOf(args, ownHandler) ==
  IF ~Some(args, OTelCallbackHandlerClass) /\ ownHandler # NoHandler
    THEN PatchedAddHandlerTo(args, ownHandler)
    ELSE args

(* ------------------------------------------------------------------ state *)

VARIABLES
  spanMapping,  \* the registry: runId -> SpanHolder
  spans,        \* every span the tracer has started, in creation order
  trace,        \* per runId, the lifecycle calls (start, end, error) made for it
                \* while instrumentation was not suppressed: <<handler, parentRunId>>
  suppressed,   \* context.active().getValue(_SUPPRESS_INSTRUMENTATION_KEY)
  last,         \* the handler call that produced this state, with its payload
                \* and the association properties it bound
  nEvents,      \* handler calls so far
  budget,       \* handler calls one behaviour may make (bookkeeping of the model)
  handlers,         \* the handler list of a callback manager
  handler,          \* instrumentation.ts: LangChainInstrumentation.handler
  callbackHandler,  \* langchain-instrumentation.ts: _callbackHandler
  patched,          \* langchain-instrumentation.ts: the prototype is wrapped
  lastRegistration  \* the registration call that produced this state

engine == <<spanMapping, spans, trace, suppressed, last, nEvents, budget>>

registration == <<handlers, handler, callbackHandler, patched, lastRegistration>>

vars == <<engine, registration>>

StartOps == {"handleChatModelStart", "handleLLMStart", "handleChainStart", "handleToolStart"}

EndOps == {"handleLLMEnd", "handleChainEnd", "handleToolEnd"}

ErrorOps == {"handleLLMError", "handleChainError", "handleToolError"}

AgentOps == {"handleAgentAction", "handleAgentEnd"}

\* No instrumentation has been constructed: the handler stands alone.
Unregistered ==
  /\ handlers = <<>>
  /\ handler = Instance(CallbackHandlerClass, 1)
  /\ callbackHandler = NoHandler
  /\ patched = FALSE
  /\ lastRegistration = [op |-> "none", handler |-> NoHandler]

\* new OpenTelemetryCallbackHandler(tracer): an empty registry.
Constructed ==
  /\ spanMapping = <<>>
  /\ spans = <<>>
  /\ trace = [r \in RunIds |-> <<>>]
  /\ suppressed = FALSE
  /\ last = [op |-> "constructor", runId |-> NoRun, sup |-> FALSE, threw |-> FALSE,
             arg |-> <<>>, assoc |-> NoEntries]
  /\ nEvents = 0
  /\ Unregistered

\* Behaviours of at most MaxEvents calls.
Init == Constructed /\ budget = MaxEvents

\* Behaviours of at most MaxDeepEvents calls.
InitDeep == Constructed /\ budget = MaxDeepEvents

\* The caller enters or leaves a scope of the active context in which
\* _SUPPRESS_INSTRUMENTATION_KEY is set.
SetSuppressed(b) ==
  /\ nEvents < budget
  /\ b # suppressed
  /\ suppressed' = b
  /\ nEvents' = nEvents + 1
  /\ last' = [op |-> "context.with", runId |-> NoRun, sup |-> b, threw |-> FALSE,
              arg |-> <<>>, assoc |-> NoEntries]
  /\ UNCHANGED <<spanMapping, spans, trace, budget>>
  /\ UNCHANGED registration

\* One handler call op(runId, parentRunId) with payload arg, leaving res.
Call(op, runId, parentRunId, arg, res) ==
  /\ nEvents < budget
  /\ UNCHANGED <<suppressed, budget>>
  /\ UNCHANGED registration
  /\ nEvents' = nEvents + 1
  /\ spanMapping' = res.m
  /\ spans' = res.sp
  /\ last' = [op |-> op, runId |-> runId, sup |-> suppressed, threw |-> res.threw,
              arg |-> arg, assoc |-> res.assoc]
  /\ trace' = IF ~suppressed /\ op \notin AgentOps
                THEN [trace EXCEPT ![runId] = Append(@, <<op, parentRunId>>)]
                ELSE trace

ChatModelStart(llm, runId, parentRunId, extraParams, metadata) ==
  Call("handleChatModelStart", runId, parentRunId,
       [llm |-> llm, extraParams |-> extraParams, metadata |-> metadata],
       HandleChatModelStart(spanMapping, spans, suppressed, llm, runId, parentRunId,
                            extraParams, metadata))

LLMStart(llm, runId, parentRunId, extraParams, metadata) ==
  Call("handleLLMStart", runId, parentRunId,
       [llm |-> llm, extraParams |-> extraParams, metadata |-> metadata],
       HandleLLMStart(spanMapping, spans, suppressed, llm, runId, parentRunId,
                      extraParams, metadata))

LLMEnd(output, runId) ==
  Call("handleLLMEnd", runId, NoRun,
       [output |-> output],
       HandleLLMEnd(spanMapping, spans, suppressed, output, runId))

\* handleLLMError(err, runId)
LLMError(err, runId) ==
  Call("handleLLMError", runId, NoRun,
       [error |-> err],
       HandleError(spanMapping, spans, suppressed, err, runId))

ChainStart(chain, inputs, runId, parentRunId, metadata) ==
  Call("handleChainStart", runId, parentRunId,
       [chain |-> chain, inputs |-> inputs, metadata |-> metadata],
       HandleChainStart(spanMapping, spans, suppressed, chain, inputs, runId, parentRunId, metadata))

ChainEnd(outputs, runId) ==
  Call("handleChainEnd", runId, NoRun,
       [outputs |-> outputs],
       HandleChainEnd(spanMapping, spans, suppressed, outputs, runId))

\* handleChainError(err, runId)
ChainError(err, runId) ==
  Call("handleChainError", runId, NoRun,
       [error |-> err],
       HandleError(spanMapping, spans, suppressed, err, runId))

ToolStart(tool, input, runId, parentRunId, metadata) ==
  Call("handleToolStart", runId, parentRunId,
       [tool |-> tool, input |-> input, metadata |-> metadata],
       HandleToolStart(spanMapping, spans, suppressed, tool, input, runId, parentRunId, metadata))

ToolEnd(output, runId) ==
  Call("handleToolEnd", runId, NoRun,
       [output |-> output],
       HandleToolEnd(spanMapping, spans, suppressed, output, runId))

\* handleToolError(err, runId)
ToolError(err, runId) ==
  Call("handleToolError", runId, NoRun,
       [error |-> err],
       HandleError(spanMapping, spans, suppressed, err, runId))

AgentAction(action, runId) ==
  Call("handleAgentAction", runId, NoRun,
       [action |-> action],
       HandleAgentAction(spanMapping, spans, suppressed, action, runId))

AgentEnd(action, runId) ==
  Call("handleAgentEnd", runId, NoRun,
       [action |-> action],
       HandleAgentEnd(spanMapping, spans, suppressed, action, runId))

(* ----------------------------------------------------------------- events *)

\* The payloads of the lifecycle specification: one well-formed payload per
\* event kind.
AnLLM ==
  [present |-> TRUE, name |-> "openai", kwargsName |-> Undefined,
   hasId |-> TRUE, id |-> <<"langchain", "llms", "OpenAI">>]

AChain ==
  [present |-> TRUE, name |-> Undefined, kwargsName |-> Undefined,
   hasId |-> TRUE, id |-> <<"langchain", "chains", "LLMChain">>]

ATool ==
  [present |-> TRUE, name |-> "search", kwargsName |-> Undefined,
   hasId |-> TRUE, id |-> <<"langchain", "tools", "Search">>]

SomeExtraParams ==
  [EmptyExtraParams EXCEPT
     !.invocation_params =
       [NoInvocationParams EXCEPT !.present = TRUE, !.model_id = "a",
                                  !.temperature = "#0.7"]]

SomeMetadata == [NoMetadata EXCEPT !.present = TRUE, !.agent_name = "agent"]

AnOutput ==
  [present |-> TRUE,
   llmOutput |-> [NoLLMOutput EXCEPT
                    !.present = TRUE, !.model_name = "a",
                    !.usage = [NoUsage EXCEPT !.present = TRUE, !.input_tokens = "#12",
                                              !.output_tokens = "#34"]]]

Boom == [present |-> TRUE, message |-> "boom"]

AnAction == [present |-> TRUE, tool |-> "search", toolInput |-> "query"]

AFinish == [present |-> TRUE, hasReturnValues |-> TRUE, output |-> "done"]

\* parentRunId?: absent or any run identifier.
ParentIds == {NoRun} \cup RunIds

\* Any one call the caller can make.
Next ==
  \/ \E b \in BOOLEAN : SetSuppressed(b)
  \/ \E runId \in RunIds :
      \/ \E p \in ParentIds : ChatModelStart(AnLLM, runId, p, SomeExtraParams, SomeMetadata)
      \/ \E p \in ParentIds : LLMStart(AnLLM, runId, p, SomeExtraParams, SomeMetadata)
      \/ LLMEnd(AnOutput, runId)
      \/ LLMError(Boom, runId)
      \/ \E p \in ParentIds : ChainStart(AChain, ObjectValue, runId, p, SomeMetadata)
      \/ ChainEnd(ObjectValue, runId)
      \/ ChainError(Boom, runId)
      \/ \E p \in ParentIds : ToolStart(ATool, "query", runId, p, SomeMetadata)
      \/ ToolEnd("result", runId)
      \/ ToolError(Boom, runId)
      \/ AgentAction(AnAction, runId)
      \/ AgentEnd(AFinish, runId)

Spec == Init /\ [][Next]_vars

SpecDeep == InitDeep /\ [][Next]_vars

(* ----------------------------------------------------- reading the state *)

CloseOps == EndOps \cup ErrorOps

\* The spans the tracer started for runId.
SpansOf(runId) == {i \in 1..Len(spans) : spans[i].run = runId}

\* A start event for runId has been processed.
Started(runId) == \E k \in 1..Len(trace[runId]) : trace[runId][k][1] \in StartOps

\* runId is active: its latest lifecycle event is a start.
Active(runId) ==
  /\ trace[runId] # <<>>
  /\ trace[runId][Len(trace[runId])][1] \in StartOps

\* runId is closed: it was started and its latest lifecycle event is an end
\* or an error.
Closed(runId) == Started(runId) /\ ~Active(runId)

\* No end or error event has been processed for runId.
NeverClosed(runId) == \A k \in 1..Len(trace[runId]) : trace[runId][k][1] \notin CloseOps

\* The step is a handler call of one of ops, for runId, outside suppression.
Handled(ops, runId) == last'.op \in ops /\ last'.runId = runId /\ ~last'.sup

\* The parentRunId of the start event the step processes.
StartParent(runId) == trace'[runId][Len(trace'[runId])][2]

(* ------------------------------------------------------------------ claims *)

\* C1: the events of run r being one start event followed by one end event
\* (the start not naming r itself as parent, and no other run having had an
\* end or error event that could reach r's span), exactly one span was
\* created for r and end() was called on it exactly once.
C1_Case(r) ==
  /\ Len(trace[r]) = 2
  /\ trace[r][1][1] \in StartOps
  /\ trace[r][1][2] # r
  /\ trace[r][2][1] \in EndOps
  /\ \A q \in RunIds \ {r} : NeverClosed(q)

C2_ClosedIsTerminal ==
  [][\A r \in RunIds :
       (Closed(r) /\ Handled(CloseOps, r)) =>
         (spans' = spans /\ spanMapping' = spanMapping)]_vars

\* C3: the registry holds a record for run r if and only if a start event
\* for r has been processed and no end or error event for r since.
C3_RecordIffActive == \A r \in RunIds : Has(spanMapping, r) <=> Active(r)

C5_CascadingClose ==
  [][\A P \in RunIds :
       (Active(P) /\ Handled(CloseOps, P)) =>
         \A k \in 1..Len(spanMapping[P].children) :
           LET c == spanMapping[P].children[k]
               i == spanMapping[c].span
           IN  (c # P /\ Has(spanMapping, c)) =>
                 /\ ~IsEnded(spans[i]) => IsEnded(spans'[i])
                 /\ (IsEnded(spans[i]) /\ Closed(c)) => spans'[i] = spans[i]]_vars

\* C6: while instrumentation is suppressed, no handler call (start, end,
\* error, agent action, agent finish) changes the registry or any span.
C6_SuppressedIsNoOp ==
  [][(last'.op \in StartOps \cup CloseOps \cup AgentOps /\ last'.sup) =>
       (spanMapping' = spanMapping /\ spans' = spans)]_vars

\* The calls an error event makes on the span of its run, in order.
ErrorCalls(message) ==
  <<(<<"setStatus", "ERROR", message>>), (<<"recordException", message>>)>>

\* C7: an error event for an active run r sets error status with the
\* message on r's span, records the exception, then ends the span and the
\* still-open spans of r's children; and a span gets error status only from
\* an error event for its own runId processed while that run is active.
C7_ErrorStatus ==
  [][/\ \A r \in RunIds :
          (Active(r) /\ Handled(ErrorOps, r)) =>
            LET i == spanMapping[r].span
            IN  /\ \E n \in 1..(MaxDeepEvents + 1) :
                     spans'[i].log =
                       spans[i].log \o ErrorCalls("boom") \o [k \in 1..n |-> <<"end">>]
                /\ \A k \in 1..Len(spanMapping[r].children) :
                     LET c == spanMapping[r].children[k]
                     IN  Has(spanMapping, c) => IsEnded(spans'[spanMapping[c].span])
     /\ \A i \in 1..Len(spans) :
          (~HasErrorStatus(spans[i]) /\ HasErrorStatus(spans'[i])) =>
            (Handled(ErrorOps, spans[i].run) /\ Active(spans[i].run))]_vars

\* C8: an end or error event for a runId that has no record in the registry
\* changes neither the registry nor any span.
C8_NoRecordIsNoOp ==
  [][\A r \in RunIds :
       (last'.op \in CloseOps /\ last'.runId = r /\ ~Has(spanMapping, r)) =>
         (spanMapping' = spanMapping /\ spans' = spans)]_vars

C8_Witness ==
  /\ last.op \in CloseOps
  /\ ~last.sup
  /\ ~Has(spanMapping, last.runId)
  /\ spanMapping # <<>>

\* C9: after chainStart(1); toolStart(2, parentRunId 1); toolEnd(2);
\* chainError(1, "boom"), span 2 has been ended exactly once and has no error
\* status, span 1 is ended with error status "boom" and a recorded exception,
\* and the registry holds a record for neither 1 nor 2.
C9_Scenario ==
  /\ nEvents = 4
  /\ Len(spans) = 2
  /\ spans[1].run = 1
  /\ trace[1] = <<(<<"handleChainStart", NoRun>>), (<<"handleChainError", NoRun>>)>>
  /\ trace[2] = <<(<<"handleToolStart", 1>>), (<<"handleToolEnd", NoRun>>)>>
  /\ last.op = "handleChainError"

C9_EndToEnd ==
  C9_Scenario =>
    /\ EndCalls(spans[2]) = 1
    /\ ~HasErrorStatus(spans[2])
    /\ IsEnded(spans[1])
    /\ \E k \in 1..Len(spans[1].log) : spans[1].log[k] = <<"setStatus", "ERROR", "boom">>
    /\ \E k \in 1..Len(spans[1].log) : spans[1].log[k] = <<"recordException", "boom">>
    /\ ~Has(spanMapping, 1)
    /\ ~Has(spanMapping, 2)

\* C10: agent action and agent finish calls never create a span, never end
\* a span and never change the registry; they set attributes only on the
\* span of an active run and change nothing when the run is not active.
C10_AgentOnlyEnriches ==
  [][\A r \in RunIds :
       (last'.op \in AgentOps /\ last'.runId = r) =>
         /\ spanMapping' = spanMapping
         /\ Len(spans') = Len(spans)
         /\ \A i \in 1..Len(spans) :
              /\ EndCalls(spans'[i]) = EndCalls(spans[i])
              /\ spans'[i] # spans[i] =>
                   (Active(r) /\ Has(spanMapping, r) /\ i = spanMapping[r].span)]_vars

(* --------------------------------------------- model start payloads *)

\* The payload specifications call the handlers for one run.
TheRun == 1

InitPayload == Constructed /\ budget = MaxPayloadCalls

\* The values a generation parameter takes: absent, null, '', 0 and 0.7.
GenValues == {Undefined, Null, "", "#0", "#0.7"}

GenParamSets ==
  [present : {TRUE}, max_tokens : GenValues, max_new_tokens : {Undefined, "#5"},
   temperature : GenValues, top_p : GenValues]

\* The parameter sets that give every parameter the same value.
UniformGenParamSets ==
  {g \in GenParamSets : g.temperature = g.max_tokens /\ g.top_p = g.max_tokens}

\* extraParams = {invocation_params: {max_tokens, max_new_tokens, temperature, top_p}}
NestedGenParams(g) ==
  [EmptyExtraParams EXCEPT
     !.invocation_params =
       [NoInvocationParams EXCEPT
          !.present = TRUE, !.max_tokens = g.max_tokens,
          !.max_new_tokens = g.max_new_tokens, !.temperature = g.temperature,
          !.top_p = g.top_p]]

\* extraParams = {max_tokens, max_new_tokens, temperature, top_p}
DirectGenParams(g) ==
  [EmptyExtraParams EXCEPT
     !.max_tokens = g.max_tokens, !.max_new_tokens = g.max_new_tokens,
     !.temperature = g.temperature, !.top_p = g.top_p]

\* extraParams = {invocation_params: {params: {...}, max_tokens: 5, temperature: 0.7}}
InnerGenParams(g) ==
  [EmptyExtraParams EXCEPT
     !.invocation_params =
       [NoInvocationParams EXCEPT
          !.present = TRUE, !.params = g, !.max_tokens = "#5", !.temperature = "#0.7"]]

\* The placements of model_id and base_model_id: directly in extraParams
\* and under invocation_params.
ModelExtraParams ==
  {[EmptyExtraParams EXCEPT !.model_id = dm, !.base_model_id = db,
                            !.invocation_params = ip] :
     dm \in {Undefined, Null, "dm"}, db \in {Undefined, "db"},
     ip \in {NoInvocationParams} \cup
            {[NoInvocationParams EXCEPT !.present = TRUE, !.model_id = nm,
                                        !.base_model_id = nb] :
               nm \in {Undefined, "a"}, nb \in {Undefined, "b"}}}

RequestExtraParams ==
  {NoExtraParams} \cup ModelExtraParams
  \cup {NestedGenParams(g) : g \in GenParamSets}
  \cup {DirectGenParams(g) : g \in UniformGenParamSets}
  \cup {InnerGenParams(g) : g \in UniformGenParamSets}

\* metadata that names no model, a model_id, or a model_id and a
\* base_model_id under invocation_params.
ModelMetadata ==
  {SomeMetadata,
   [SomeMetadata EXCEPT
      !.invocation_params = [NoInvocationParams EXCEPT !.present = TRUE, !.model_id = "mm"]],
   [SomeMetadata EXCEPT
      !.invocation_params = [NoInvocationParams EXCEPT !.present = TRUE, !.model_id = "mm",
                                                       !.base_model_id = "mb"]]}

\* The payloads of a model start: every placement of the model in
\* extraParams with every metadata, and every set of generation parameters.
RequestPayloads ==
  (({NoExtraParams} \cup ModelExtraParams) \X ModelMetadata)
  \cup ((RequestExtraParams \ ModelExtraParams) \X {SomeMetadata})

\* Any one model start for TheRun.
NextRequest ==
  \/ \E payload \in RequestPayloads :
       LLMStart(AnLLM, TheRun, NoRun, payload[1], payload[2])
  \/ \E payload \in RequestPayloads :
       ChatModelStart(AnLLM, TheRun, NoRun, payload[1], payload[2])

SpecRequest == InitPayload /\ [][NextRequest]_vars

\* The values the handler set attribute name to on span s.
AttrValues(s, name) ==
  {s.log[k][3] : k \in {j \in 1..Len(s.log) :
                          s.log[j][1] = "setAttribute" /\ s.log[j][2] = name}}

\* The span of the record of the run the last call was made for.
LastSpan == spans[spanMapping[last.runId].span]

\* The last call was a model start that created a span.
ModelStarted ==
  /\ last.op \in {"handleLLMStart", "handleChatModelStart"}
  /\ ~last.sup
  /\ ~last.threw

\* A value that is present, non-null and not the empty string.
Present(v) == v \notin {Undefined, Null, ""}

(* -------------------------------------------------------------------- C11 *)

\* The span carries attribute name with exactly the value v when v is
\* present, and does not carry it otherwise.
C11_Carried(name, v) == AttrValues(LastSpan, name) = IF Present(v) THEN {v} ELSE {}

\* C11: after a model start, each generation parameter of the payload
\* (max_tokens or else max_new_tokens, temperature, top_p) is on the span
\* with exactly its value when that value is present, non-null and not '',
\* numeric 0 included, and is not on the span otherwise.
C11_GenerationParams ==
  ModelStarted =>
    LET params == GenParams(last.arg.extraParams)
    IN  /\ C11_Carried("gen_ai.request.max_tokens",
                       IF Present(params.max_tokens) THEN params.max_tokens
                       ELSE params.max_new_tokens)
        /\ C11_Carried("gen_ai.request.temperature", params.temperature)
        /\ C11_Carried("gen_ai.request.top_p", params.top_p)

\* The part of C11 that the source keeps: temperature and top_p, and a
\* maximum that is not 0.
C11_ExceptZeroMaximum ==
  ModelStarted =>
    LET params == GenParams(last.arg.extraParams)
    IN  /\ params.max_tokens # "#0" =>
             C11_Carried("gen_ai.request.max_tokens",
                         IF Present(params.max_tokens) THEN params.max_tokens
                         ELSE params.max_new_tokens)
        /\ C11_Carried("gen_ai.request.temperature", params.temperature)
        /\ C11_Carried("gen_ai.request.top_p", params.top_p)

(* -------------------------------------------------------------------- C12 *)

\* The first of four values that is defined.
FirstDefined(a, b, c, d) ==
  IF a # Undefined THEN a
  ELSE IF b # Undefined THEN b
  ELSE IF c # Undefined THEN c
  ELSE d

\* The model start resolved the model to v: the record holds it, and the
\* span carries it as gen_ai.request.model when it is not null.
ResolvedTo(v) ==
  /\ spanMapping[last.runId].requestModel = v
  /\ AttrValues(LastSpan, "gen_ai.request.model") = IF Present(v) THEN {v} ELSE {}

\* The last call was a model start that ran _setRequestParams.
RequestParamsSet ==
  /\ ModelStarted
  /\ last.op = "handleChatModelStart" => last.arg.extraParams.present

\* C12: the model is the first defined of: direct model_id, direct
\* base_model_id, invocation_params.model_id, invocation_params.base_model_id;
\* so a direct base_model_id wins over a nested model_id.
C12_DirectBeforeNested ==
  RequestParamsSet =>
    LET k == last.arg.extraParams
        v == FirstDefined(k.model_id, k.base_model_id,
                          k.invocation_params.model_id, k.invocation_params.base_model_id)
    IN  v # Undefined => ResolvedTo(v)

\* C12, amended: the model is the first defined of: direct model_id,
\* invocation_params.model_id, direct base_model_id,
\* invocation_params.base_model_id; so model_id wins over base_model_id
\* wherever the two are, and invocation_params = {model_id: "a",
\* base_model_id: "b"} resolves to "a".
C12_ModelIdBeforeBaseModelId ==
  RequestParamsSet =>
    LET k == last.arg.extraParams
        v == FirstDefined(k.model_id, k.invocation_params.model_id,
                          k.base_model_id, k.invocation_params.base_model_id)
    IN  v # Undefined => ResolvedTo(v)

\* A model start whose payload has a direct base_model_id and a nested
\* model_id, and no direct model_id, resolved the model to the nested one.
C12_Witness ==
  /\ RequestParamsSet
  /\ last.arg.extraParams.model_id = Undefined
  /\ last.arg.extraParams.base_model_id = "db"
  /\ last.arg.extraParams.invocation_params.model_id = "a"
  /\ ResolvedTo("a")

(* ------------------------------------------------- model end payloads *)

\* The registry after handleLLMStart for TheRun on a new handler.
StartedRegistry ==
  HandleLLMStart(<<>>, <<>>, FALSE, AnLLM, TheRun, NoRun, SomeExtraParams, SomeMetadata)

\* TheRun has been started and no other call has been made.
InitStarted ==
  /\ spanMapping = StartedRegistry.m
  /\ spans = StartedRegistry.sp
  /\ trace = [r \in RunIds |-> IF r = TheRun THEN << <<"handleLLMStart", NoRun>> >> ELSE <<>>]
  /\ suppressed = FALSE
  /\ last = [op |-> "handleLLMStart", runId |-> TheRun, sup |-> FALSE, threw |-> FALSE,
             arg |-> [llm |-> AnLLM, extraParams |-> SomeExtraParams,
                      metadata |-> SomeMetadata],
             assoc |-> StartedRegistry.assoc]
  /\ nEvents = 0
  /\ budget = MaxPayloadCalls
  /\ Unregistered

\* The usage blocks: each field absent or a number, 0 included.
UsageBlocks ==
  [present : {TRUE},
   prompt_tokens : {Undefined, "#0", "#5"}, input_token_count : {Undefined, "#12"},
   input_tokens : {Undefined, "#0", "#34"},
   completion_tokens : {Undefined, "#0", "#5"}, generated_token_count : {Undefined, "#12"},
   output_tokens : {Undefined, "#0", "#34"}]

\* output = {llmOutput: {token_usage, usage}}
UsageOutput(tokenUsage, usage) ==
  [present |-> TRUE,
   llmOutput |-> [NoLLMOutput EXCEPT !.present = TRUE, !.token_usage = tokenUsage,
                                     !.usage = usage]]

\* The results of a model run: the usage block under token_usage, under
\* usage, under both, or missing.
UsageOutputs ==
  {UsageOutput(u, NoUsage) : u \in UsageBlocks}
  \cup {UsageOutput(NoUsage, u) : u \in UsageBlocks}
  \cup {UsageOutput([NoUsage EXCEPT !.present = TRUE, !.prompt_tokens = "#5"], u) :
          u \in {v \in UsageBlocks : v.prompt_tokens = Undefined
                                     /\ v.completion_tokens = Undefined}}
  \cup {UsageOutput(NoUsage, NoUsage), [present |-> TRUE, llmOutput |-> NoLLMOutput]}

\* Any one model end for TheRun.
NextUsage == \E output \in UsageOutputs : LLMEnd(output, TheRun)

SpecUsage == InitStarted /\ [][NextUsage]_vars

\* The calls this step made on span i.
AddedCalls(i) == SubSeq(spans'[i].log, Len(spans[i].log) + 1, Len(spans'[i].log))

\* The values this step set attribute name to on span i.
AddedAttrValues(i, name) ==
  LET added == AddedCalls(i)
  IN  {added[k][3] : k \in {j \in 1..Len(added) :
                              added[j][1] = "setAttribute" /\ added[j][2] = name}}

(* -------------------------------------------------------------------- C13 *)

\* The first of three fields that is present.
FirstPresent(a, b, c) == IF a # Undefined THEN a ELSE IF b # Undefined THEN b ELSE c

\* This step is a model end for a run with a record, whose result has a
\* usage block.
C13_Case ==
  /\ last'.op = "handleLLMEnd"
  /\ ~last'.sup
  /\ ~last'.threw
  /\ Has(spanMapping, last'.runId)
  /\ last'.arg.output.llmOutput.present
  /\ TokenUsage(last'.arg.output.llmOutput).present

\* C13: a model end sets the input and output token attributes to the value
\* of the first field of the usage block (token_usage, else usage) that is
\* present, in the order prompt_tokens, input_token_count, input_tokens and
\* completion_tokens, generated_token_count, output_tokens; a first field
\* holding 0 is taken even when a later synonym is present.
C13_FirstPresentField ==
  [][C13_Case =>
       LET tu   == TokenUsage(last'.arg.output.llmOutput)
           i    == spanMapping[last'.runId].span
           inp  == FirstPresent(tu.prompt_tokens, tu.input_token_count, tu.input_tokens)
           outp == FirstPresent(tu.completion_tokens, tu.generated_token_count,
                                tu.output_tokens)
       IN  /\ AddedAttrValues(i, "gen_ai.usage.input_tokens")
                = IF Present(inp) THEN {inp} ELSE {}
           /\ AddedAttrValues(i, "gen_ai.usage.output_tokens")
                = IF Present(outp) THEN {outp} ELSE {}]_vars

\* The part of C13 that the source keeps: the first field that is present
\* and not 0.
C13_FirstNonZeroField ==
  [][C13_Case =>
       LET tu   == TokenUsage(last'.arg.output.llmOutput)
           i    == spanMapping[last'.runId].span
           inp  == Or(tu.prompt_tokens, Or(tu.input_token_count, tu.input_tokens))
           outp == Or(tu.completion_tokens, Or(tu.generated_token_count, tu.output_tokens))
       IN  /\ AddedAttrValues(i, "gen_ai.usage.input_tokens")
                = IF Present(inp) THEN {inp} ELSE {}
           /\ AddedAttrValues(i, "gen_ai.usage.output_tokens")
                = IF Present(outp) THEN {outp} ELSE {}]_vars

(* ------------------------------------------------------ payload shapes *)

\* The serialized descriptors: with or without a declared name, a name
\* under kwargs, an id path.
Descriptors ==
  {[present |-> TRUE, name |-> n, kwargsName |-> k, hasId |-> (id # <<>>), id |-> id] :
     n \in {Undefined, "declared"}, k \in {Undefined, "explicit"},
     id \in {<<>>, <<"langchain", "schema", "Last">>}}

\* extraParams: missing, empty, naming the run, naming the model, or both.
ShapeExtraParams ==
  {NoExtraParams, EmptyExtraParams, SomeExtraParams,
   [EmptyExtraParams EXCEPT !.name = "explicit"],
   [SomeExtraParams EXCEPT !.name = "explicit"]}

\* metadata: missing, empty, or naming the agent.
ShapeMetadata == {NoMetadata, [NoMetadata EXCEPT !.present = TRUE], SomeMetadata}

\* Error objects with and without a message.
ShapeErrors == {Boom, [present |-> TRUE, message |-> Undefined]}

\* Results of a model run with and without llmOutput.
ShapeOutputs == {AnOutput, [present |-> TRUE, llmOutput |-> NoLLMOutput]}

\* Agent actions with and without their fields.
ShapeActions == {AnAction, [present |-> TRUE, tool |-> Undefined, toolInput |-> Undefined]}

\* Agent finishes with returnValues.output, with returnValues = {} and
\* without returnValues.
ShapeFinishes ==
  {AFinish,
   [present |-> TRUE, hasReturnValues |-> TRUE, output |-> Undefined],
   [present |-> TRUE, hasReturnValues |-> FALSE, output |-> Undefined]}

\* A new handler, or one that has started TheRun.
InitShapes == InitPayload \/ InitStarted

\* Any one call for TheRun, with a payload of any of the shapes above.
NextShapes ==
  \/ \E llm \in Descriptors, extraParams \in ShapeExtraParams, metadata \in ShapeMetadata :
       ChatModelStart(llm, TheRun, NoRun, extraParams, metadata)
  \/ \E llm \in Descriptors, extraParams \in ShapeExtraParams, metadata \in ShapeMetadata :
       LLMStart(llm, TheRun, NoRun, extraParams, metadata)
  \/ \E output \in ShapeOutputs : LLMEnd(output, TheRun)
  \/ \E err \in ShapeErrors : LLMError(err, TheRun)
  \/ \E chain \in Descriptors, metadata \in ShapeMetadata :
       ChainStart(chain, ObjectValue, TheRun, NoRun, metadata)
  \/ ChainEnd(ObjectValue, TheRun)
  \/ \E err \in ShapeErrors : ChainError(err, TheRun)
  \/ \E tool \in Descriptors, metadata \in ShapeMetadata :
       ToolStart(tool, "query", TheRun, NoRun, metadata)
  \/ ToolEnd("result", TheRun)
  \/ \E err \in ShapeErrors : ToolError(err, TheRun)
  \/ \E action \in ShapeActions : AgentAction(action, TheRun)
  \/ \E action \in ShapeFinishes : AgentEnd(action, TheRun)

SpecShapes == InitShapes /\ [][NextShapes]_vars

(* -------------------------------------------------------------------- C14 *)

\* C14: no handler call raises to its caller, whatever fields its payload
\* lacks.
C14_NoHandlerRaises == ~last.threw

\* Apart from handleAgentEnd, no handler raises on a payload that lacks
\* fields.
C14_ExceptAgentEnd == last.op # "handleAgentEnd" => ~last.threw

(* -------------------------------------------------------------------- C15 *)

\* The fixed label of the execution kind.
KindLabel(op) ==
  IF op \in {"handleChatModelStart", "handleLLMStart"} THEN "chat"
  ELSE IF op = "handleChainStart" THEN "chain"
  ELSE "execute_tool"

\* The first of five values that is available.
FirstAvailable(a, b, c, d, e) ==
  IF Truthy(a) THEN a ELSE IF Truthy(b) THEN b ELSE IF Truthy(c) THEN c
  ELSE IF Truthy(d) THEN d ELSE e

\* The descriptor and the model parameters of a start payload.
StartDescriptor(op, arg) ==
  IF op \in {"handleChatModelStart", "handleLLMStart"} THEN arg.llm
  ELSE IF op = "handleChainStart" THEN arg.chain
  ELSE arg.tool

StartExtraParams(op, arg) ==
  IF op \in {"handleChatModelStart", "handleLLMStart"} THEN arg.extraParams
  ELSE NoExtraParams

\* C15: the name of the span a start creates is the label of the kind, a
\* space, and the first available of: the explicit name, the resolved model
\* identifier, the declared name of the descriptor, the last segment of its
\* id path, "unknown".
C15_SpanName ==
  [][(last'.op \in StartOps /\ ~last'.sup /\ ~last'.threw) =>
       LET d  == StartDescriptor(last'.op, last'.arg)
           ep == StartExtraParams(last'.op, last'.arg)
       IN  spans'[spanMapping'[last'.runId].span].name
             = KindLabel(last'.op) \o " "
               \o FirstAvailable(Or(d.kwargsName, ep.name), RequestModel(ep).model, d.name,
                                 IF d.id = <<>> THEN Undefined ELSE d.id[Len(d.id)],
                                 "unknown")]_vars

\* What the source does: the name of the span depends on the handler alone.
C15_FixedText ==
  (last.op \in StartOps /\ ~last.sup /\ ~last.threw) =>
    LastSpan.name \in {"${GenAIOperationValues.CHAT} ${name}", "chain ${name}",
                       "execute_tool ${name}"}

(* ---------------------------------------------------- metadata payloads *)

\* Metadata values of every type the sanitizer tells apart.
MetadataValues ==
  {JsUndefined, JsNull, Value("boolean", "false"), Value("number", "0"),
   StringValue(""), StringValue("s"), Value("buffer", "bytes"),
   Value("object", "[object Object]"),
   ArrayValue(<<>>),
   ArrayValue(<<Value("number", "1"), JsNull>>),
   ArrayValue(<<StringValue("a"), ArrayValue(<<Value("number", "1"), JsUndefined>>)>>),
   ArrayValue(<<Value("object", "[object Object]"), Value("boolean", "false")>>)}

\* metadata = {agent_name: "agent", k1: ..., k2: ...}, or no metadata.
MetadataMaps ==
  {NoMetadata}
  \cup {[SomeMetadata EXCEPT !.entries = e] : e \in [{"k1", "k2"} -> MetadataValues]}

\* Any one start for TheRun.
NextMetadata ==
  \/ \E metadata \in MetadataMaps :
       ChatModelStart(AnLLM, TheRun, NoRun, SomeExtraParams, metadata)
  \/ \E metadata \in MetadataMaps :
       LLMStart(AnLLM, TheRun, NoRun, SomeExtraParams, metadata)
  \/ \E metadata \in MetadataMaps :
       ChainStart(AChain, ObjectValue, TheRun, NoRun, metadata)
  \/ \E metadata \in MetadataMaps :
       ToolStart(ATool, "query", TheRun, NoRun, metadata)

SpecMetadata == InitPayload /\ [][NextMetadata]_vars

(* -------------------------------------------------------------------- C16 *)

\* The text of an element of a sanitized sequence: the element goes through
\* the sanitizer (null and undefined give null, a sequence gives the
\* sequence of the texts of its elements) and is then stringified.
RECURSIVE C16_ElementText(_)
RECURSIVE C16_JoinTexts(_)
C16_JoinTexts(items) ==
  IF items = <<>> THEN ""
  ELSE IF Len(items) = 1 THEN C16_ElementText(items[1])
  ELSE C16_ElementText(items[1]) \o "," \o C16_JoinTexts(Tail(items))

C16_ElementText(e) ==
  IF e.t \in {"null", "undefined"} THEN "null"
  ELSE IF e.t = "array" THEN C16_JoinTexts(e.items)
  ELSE e.v

\* The last call was a start that created a span.
SpanCreated == last.op \in StartOps /\ ~last.sup /\ ~last.threw

\* C16: the sanitized metadata of a start has an entry for exactly the
\* entries of the metadata that are not null or undefined; a boolean,
\* number, string or byte buffer is kept as it is; a sequence becomes the
\* sequence, of the same length, of the strings of its sanitized elements;
\* any other value becomes its string.
C16_Sanitized ==
  SpanCreated =>
    LET given == MetadataEntries(last.arg.metadata)
        out   == last.assoc
    IN  /\ DOMAIN out = {k \in DOMAIN given : given[k].t \notin {"null", "undefined"}}
        /\ \A k \in DOMAIN out :
             IF given[k].t \in {"boolean", "number", "string", "buffer"}
               THEN out[k] = given[k]
             ELSE IF given[k].t = "array"
               THEN /\ out[k].t = "array"
                    /\ Len(out[k].items) = Len(given[k].items)
                    /\ \A j \in 1..Len(out[k].items) :
                         out[k].items[j] = StringValue(C16_ElementText(given[k].items[j]))
             ELSE out[k] = StringValue(given[k].v)

\* A start whose metadata holds a null entry and a sequence of a number and
\* null: the first is dropped, the second is the strings "1" and "null".
C16_Witness ==
  /\ SpanCreated
  /\ last.arg.metadata.present
  /\ last.arg.metadata.entries["k1"] = JsNull
  /\ last.arg.metadata.entries["k2"] = ArrayValue(<<Value("number", "1"), JsNull>>)
  /\ DOMAIN last.assoc = {"agent_name", "k2"}
  /\ last.assoc["k2"] = ArrayValue(<<StringValue("1"), StringValue("null")>>)

(* ------------------------------------------------------ execution trees *)

\* The runs of a three-level tree, and one run more for every run of RunIds
\* after the first.
ParentRun == TheRun

ChildRun == TheRun + 1

GrandchildRun == TheRun + 2

TreeRunIds == 1..(MaxRuns + 1)

\* The registry after a chain ParentRun, a chain ChildRun under it and a
\* tool GrandchildRun under that have been started on a new handler.
ParentStarted ==
  HandleChainStart(<<>>, <<>>, FALSE, AChain, ObjectValue, ParentRun, NoRun, SomeMetadata)

ChildStarted ==
  HandleChainStart(ParentStarted.m, ParentStarted.sp, FALSE, AChain, ObjectValue,
                   ChildRun, ParentRun, SomeMetadata)

GrandchildStarted ==
  HandleToolStart(ChildStarted.m, ChildStarted.sp, FALSE, ATool, "query",
                  GrandchildRun, ChildRun, SomeMetadata)

\* The three runs have been started and are open.
InitTree ==
  /\ spanMapping = GrandchildStarted.m
  /\ spans = GrandchildStarted.sp
  /\ trace = [r \in TreeRunIds |->
                IF r = ParentRun THEN << <<"handleChainStart", NoRun>> >>
                ELSE IF r = ChildRun THEN << <<"handleChainStart", ParentRun>> >>
                ELSE IF r = GrandchildRun THEN << <<"handleToolStart", ChildRun>> >>
                ELSE <<>>]
  /\ suppressed = FALSE
  /\ last = [op |-> "handleToolStart", runId |-> GrandchildRun, sup |-> FALSE,
             threw |-> FALSE,
             arg |-> [tool |-> ATool, input |-> "query", metadata |-> SomeMetadata],
             assoc |-> GrandchildStarted.assoc]
  /\ nEvents = 0
  /\ budget = MaxTreeEvents
  /\ Unregistered

\* Any one chain, tool or agent call for a run of the tree or a new run.
NextTree ==
  \/ \E b \in BOOLEAN : SetSuppressed(b)
  \/ \E runId \in TreeRunIds :
      \/ \E p \in {NoRun} \cup TreeRunIds :
           ChainStart(AChain, ObjectValue, runId, p, SomeMetadata)
      \/ ChainEnd(ObjectValue, runId)
      \/ ChainError(Boom, runId)
      \/ \E p \in {NoRun} \cup TreeRunIds : ToolStart(ATool, "query", runId, p, SomeMetadata)
      \/ ToolEnd("result", runId)
      \/ AgentEnd(AFinish, runId)

SpecTree == InitTree /\ [][NextTree]_vars

\* The runs the registry has a record for, and the runs a record lists.
Runs == DOMAIN spanMapping

ChildrenOf(q) == {spanMapping[q].children[k] : k \in 1..Len(spanMapping[q].children)}

(* -------------------------------------------------------------------- C17 *)

\* The spans an end or error event for P may end: the span of P's record and
\* the spans of the records of the runs P's record lists.
C17_OneLevel(P) ==
  {spanMapping[P].span} \cup {spanMapping[c].span : c \in ChildrenOf(P) \cap Runs}

\* C17: an end or error event for a run P with a record ends the span of P
\* and the spans of P's direct children, and makes no call on any other
\* span: the span of a grandchild that is open stays open.
C17_CascadeOneLevel ==
  [][\A P \in Runs :
       Handled(CloseOps, P) =>
         /\ Len(spans') = Len(spans)
         /\ \A i \in 1..Len(spans) :
              IF i \in C17_OneLevel(P)
                THEN IsEnded(spans'[i])
                ELSE spans'[i] = spans[i]]_vars

\* ParentRun has been ended while ChildRun and GrandchildRun were open: the
\* spans of ParentRun and ChildRun are ended, the span of GrandchildRun, a
\* child of ChildRun, is open.
C17_Witness ==
  /\ last.op \in CloseOps /\ last.runId = ParentRun /\ ~last.sup
  /\ spanMapping[ParentRun].children = <<ChildRun>>
  /\ spanMapping[ChildRun].children = <<GrandchildRun>>
  /\ IsEnded(spans[spanMapping[ParentRun].span])
  /\ IsEnded(spans[spanMapping[ChildRun].span])
  /\ ~IsEnded(spans[spanMapping[GrandchildRun].span])

(* -------------------------------------------------------------------- C18 *)

\* The step is an end or error event for r, or for a run whose record lists
\* r as a child.
CloseEventFor(r) ==
  /\ last'.op \in CloseOps
  /\ ~last'.sup
  /\ \/ last'.runId = r
     \/ Has(spanMapping, last'.runId) /\ r \in ChildrenOf(last'.runId)

\* C18: the open span of a record is closed only by an end or error event
\* for its own run or for its recorded parent; every other event leaves the
\* span open and the record as it was.
C18_OnlyOwnOrParentEvent ==
  [][\A r \in Runs :
       (~IsEnded(spans[spanMapping[r].span]) /\ ~CloseEventFor(r)) =>
         /\ ~IsEnded(spans'[spanMapping[r].span])
         /\ spanMapping'[r] = spanMapping[r]]_vars

\* C18, amended: the open span of a record is closed only by an end or error
\* event for its own run or for a run whose record lists it as a child;
\* every other event leaves the span open, and leaves the record as it was
\* unless it is a start: a start that names the run as parent appends the
\* started run to the record's children, a start for the run itself
\* replaces the record by one for a new span.
C18_OnlyOwnOrParentEventOrStart ==
  [][\A r \in Runs :
       (~IsEnded(spans[spanMapping[r].span]) /\ ~CloseEventFor(r)) =>
         /\ ~IsEnded(spans'[spanMapping[r].span])
         /\ \/ spanMapping'[r] = spanMapping[r]
            \/ /\ last'.op \in StartOps /\ ~last'.sup /\ last'.runId # r
               /\ StartParent(last'.runId) = r
               /\ spanMapping'[r]
                    = [spanMapping[r] EXCEPT !.children = Append(@, last'.runId)]
            \/ /\ Handled(StartOps, r)
               /\ spanMapping'[r].span = Len(spans')
               /\ Len(spans') = Len(spans) + 1]_vars

\* An error event for ParentRun has closed the span of ChildRun, for which
\* no end or error event was processed.
C18_Witness ==
  /\ last.op \in ErrorOps /\ last.runId = ParentRun /\ ~last.sup
  /\ ChildRun \in ChildrenOf(ParentRun)
  /\ NeverClosed(ChildRun)
  /\ EndCalls(spans[spanMapping[ChildRun].span]) = 1

(* -------------------------------------------------------------------- C19 *)

\* The places where a children list names r: <<record, position>>.
Listings(r) ==
  UNION {{<<q, k>> : k \in {j \in 1..Len(spanMapping[q].children) :
                              spanMapping[q].children[j] = r}} : q \in Runs}

\* The runs reachable from the runs of S through at most n children lists.
RECURSIVE ReachableWithin(_, _)
ReachableWithin(S, n) ==
  IF n = 0 THEN S
  ELSE ReachableWithin(S \cup UNION {ChildrenOf(q) : q \in S \cap Runs}, n - 1)

Descendants(r) == ReachableWithin(ChildrenOf(r), Cardinality(Runs))

\* C19: the children lists form a forest: every run is listed by at most
\* one record and at most once, and no run is its own descendant; so a start
\* that names its own runId as parent does not list the run under itself.
C19_Forest ==
  \A r \in Runs :
    /\ Cardinality(Listings(r)) <= 1
    /\ r \notin Descendants(r)

\* C19 without the self-parent start and without starting a run twice: the
\* children lists of runs that were each started once, under another run,
\* form a forest.
C19_ForestOfSingleStarts ==
  (\A r \in DOMAIN trace :
     \A k \in 1..Len(trace[r]) :
       trace[r][k][1] \in StartOps => (k = 1 /\ trace[r][k][2] # r))
  => C19_Forest

(* -------------------------------------------------------------------- C20 *)

IsStart(entry) == entry[1] \in StartOps

\* The parentRunId of the start event that created span i: the k-th start
\* event of its run, span i being the k-th span of that run.
ParentNamedBy(i) ==
  LET r == spans[i].run
      k == Cardinality({j \in SpansOf(r) : j <= i})
  IN  SelectSeq(trace[r], IsStart)[k][2]

\* The runs started with q as parentRunId, in the order of their start
\* events, from the start that created span i on.
RECURSIVE StartedUnder(_, _)
StartedUnder(q, i) ==
  IF i > Len(spans) THEN <<>>
  ELSE (IF ParentNamedBy(i) = q THEN <<spans[i].run>> ELSE <<>>) \o StartedUnder(q, i + 1)

\* Every record lists the runs started under its run since the record was
\* made, in the order of their starts.
C20_Listed ==
  \A q \in Runs : spanMapping[q].children = StartedUnder(q, spanMapping[q].span)

\* C20: after every step, the children of every record are the runs started
\* with the record's runId as parentRunId, in the order of their start
\* events; a step changes the children of a record only by appending the
\* run of a start event that names the record's run as parent, and that run
\* then has a record, is started and is not ended.
C20_ChildrenLists ==
  [][/\ C20_Listed'
     /\ \A q \in Runs :
          (/\ spanMapping'[q].span = spanMapping[q].span
           /\ spanMapping'[q].children # spanMapping[q].children) =>
            LET c == last'.runId
            IN  /\ last'.op \in StartOps /\ ~last'.sup
                /\ StartParent(c) = q
                /\ spanMapping'[q].children = Append(spanMapping[q].children, c)
                /\ Has(spanMapping', c)
                /\ trace'[c][Len(trace'[c])][1] \in StartOps
                /\ ~IsEnded(spans'[spanMapping'[c].span])]_vars

\* GrandchildRun has been started again, under ParentRun: ParentRun lists
\* ChildRun and then GrandchildRun.
C20_Witness ==
  /\ last.op \in StartOps /\ last.runId = GrandchildRun /\ ~last.sup
  /\ spanMapping[ParentRun].children = <<ChildRun, GrandchildRun>>
  /\ ~IsEnded(spans[spanMapping[GrandchildRun].span])

(* -------------------------------------------------------------------- C21 *)

\* C21: a start event for run C that names as parent another run P whose
\* latest event is an end or an error creates C's span as a root and leaves
\* P's record as it was.
C21_EndedParentIsNoParent ==
  [][\A C \in DOMAIN trace :
       Handled(StartOps, C) =>
         LET P == StartParent(C)
         IN  (P # NoRun /\ P # C /\ Closed(P)) =>
               /\ spans'[spanMapping'[C].span].parent = 0
               /\ Has(spanMapping, P) => spanMapping'[P] = spanMapping[P]]_vars

(* -------------------------------------------------------------------- C22 *)

\* C22: no step gives the record of a run another span, and after every
\* step each span that is open is the span of a record, so that an end or
\* error event can still close it.
C22_SpanNeverReassigned ==
  [][/\ \A r \in Runs : spanMapping'[r].span = spanMapping[r].span
     /\ \A i \in 1..Len(spans') :
          ~IsEnded(spans'[i]) => \E r \in DOMAIN spanMapping' : spanMapping'[r].span = i]_vars

\* C22 for runs that are started once: while no run has had a second start
\* event, no record is given another span and every open span is the span
\* of a record.
C22_SingleStarts ==
  [][(\A r \in DOMAIN trace : Len(SelectSeq(trace'[r], IsStart)) <= 1) =>
       /\ \A r \in Runs : spanMapping'[r].span = spanMapping[r].span
       /\ \A i \in 1..Len(spans') :
            ~IsEnded(spans'[i]) =>
              \E r \in DOMAIN spanMapping' : spanMapping'[r].span = i]_vars

(* -------------------------------------------------------------------- C23 *)

\* C23: the model a record holds is the one it was made with and is never
\* changed: a model start whose metadata names a model leaves that model in
\* the record whatever extraParams names, and no step changes the
\* requestModel of a record that keeps its span.
C23_RequestModelSetOnce ==
  [][/\ (last'.op \in {"handleLLMStart", "handleChatModelStart"}
         /\ ~last'.sup /\ ~last'.threw
         /\ MetadataModelId(last'.arg.metadata) # "unknown") =>
          spanMapping'[last'.runId].requestModel = MetadataModelId(last'.arg.metadata)
     /\ \A r \in Runs :
          spanMapping'[r].span = spanMapping[r].span =>
            spanMapping'[r].requestModel = spanMapping[r].requestModel]_vars

\* The part of C23 that the source keeps: no step changes the requestModel
\* of a record that keeps its span.
C23_NoLaterEventChangesModel ==
  [][\A r \in Runs :
       spanMapping'[r].span = spanMapping[r].span =>
         spanMapping'[r].requestModel = spanMapping[r].requestModel]_vars

(* -------------------------------------------------------------------- C24 *)

\* The payload of the model start names no model: neither model_id nor
\* base_model_id, directly or under invocation_params.
NoModelNamed(extraParams) ==
  /\ extraParams.model_id = Undefined
  /\ extraParams.base_model_id = Undefined
  /\ extraParams.invocation_params.model_id = Undefined
  /\ extraParams.invocation_params.base_model_id = Undefined

ModelAttrValues ==
  AttrValues(LastSpan, "gen_ai.request.model") \cup AttrValues(LastSpan, "gen_ai.response.model")

\* C24: a model start whose payload names no model sets neither
\* gen_ai.request.model nor gen_ai.response.model, and no model start sets
\* either of them to the placeholder "unknown".
C24_NoPlaceholderAttribute ==
  ModelStarted =>
    /\ NoModelNamed(last.arg.extraParams) => ModelAttrValues = {}
    /\ "unknown" \notin ModelAttrValues

\* A model start whose payload names no model: the record holds the
\* placeholder and the span carries no model attribute.
C24_Witness ==
  /\ ModelStarted
  /\ last.arg.extraParams.present
  /\ NoModelNamed(last.arg.extraParams)
  /\ spanMapping[last.runId].requestModel = "unknown"
  /\ ModelAttrValues = {}

(* ----------------------------------------------------------- registration *)

\* A registration call op with the handler it offered, leaving list.
Registered(op, h, list) ==
  /\ Len(list) <= MaxHandlers
  /\ handlers' = list
  /\ lastRegistration' = [op |-> op, handler |-> h]
  /\ UNCHANGED engine

\* instrumentation.ts: enable().
Enable ==
  /\ Registered("enable", handler, EnableHandlers(handlers, handler))
  /\ UNCHANGED <<handler, callbackHandler, patched>>

\* instrumentation.ts: setTracerProvider(tracerProvider) makes a new handler
\* object and registers nothing.
SetTracerProvider ==
  /\ handler.n < MaxInstances
  /\ handler' = Instance(CallbackHandlerClass, handler.n + 1)
  /\ lastRegistration' = [op |-> "setTracerProvider", handler |-> NoHandler]
  /\ UNCHANGED <<handlers, callbackHandler, patched>>
  /\ UNCHANGED engine

\* langchain-instrumentation.ts: _patchLangChain() makes the handler object
\* and wraps the constructor and addHandler of CallbackManager.prototype.
PatchLangChain ==
  /\ callbackHandler.n < MaxInstances
  /\ callbackHandler' = Instance(OTelCallbackHandlerClass, callbackHandler.n + 1)
  /\ patched' = TRUE
  /\ lastRegistration' = [op |-> "_patchLangChain", handler |-> NoHandler]
  /\ UNCHANGED <<handlers, handler>>
  /\ UNCHANGED engine

\* langchain-instrumentation.ts: _unpatchLangChain() puts the originals back.
UnpatchLangChain ==
  /\ patched
  /\ patched' = FALSE
  /\ lastRegistration' = [op |-> "_unpatchLangChain", handler |-> NoHandler]
  /\ UNCHANGED <<handlers, handler, callbackHandler>>
  /\ UNCHANGED engine

\* The callback manager is constructed, through the wrapped constructor, with
\* the handlers args gives it.
PatchedConstructor(args) ==
  /\ patched
  /\ Registered("constructor", callbackHandler, PatchedConstructorOf(args, callbackHandler))
  /\ UNCHANGED <<handler, callbackHandler, patched>>

\* addHandler(h) on the callback manager, through the wrapped method.
PatchedAddHandler(h) ==
  /\ patched
  /\ Registered("addHandler", h, PatchedAddHandlerTo(handlers, h))
  /\ UNCHANGED <<handler, callbackHandler, patched>>

AUserHandler == Instance(UserHandlerClass, 1)

\* The handlers an application constructs a callback manager with.
ConstructorArgs == {<<>>, <<AUserHandler>>}

\* The handlers a caller can pass to addHandler.
AddableHandlers == {AUserHandler, handler} \cup ({callbackHandler} \ {NoHandler})

\* Both instrumentations have been constructed: the constructor of
\* instrumentation.ts has made its handler and called init(), which calls
\* enable(); the one of langchain-instrumentation.ts has left _callbackHandler
\* null.
InitRegistration ==
  /\ spanMapping = <<>>
  /\ spans = <<>>
  /\ trace = [r \in RunIds |-> <<>>]
  /\ suppressed = FALSE
  /\ last = [op |-> "constructor", runId |-> NoRun, sup |-> FALSE, threw |-> FALSE,
             arg |-> <<>>, assoc |-> NoEntries]
  /\ nEvents = 0
  /\ budget = 0
  /\ handler = Instance(CallbackHandlerClass, 1)
  /\ handlers = EnableHandlers(<<>>, handler)
  /\ callbackHandler = NoHandler
  /\ patched = FALSE
  /\ lastRegistration = [op |-> "enable", handler |-> handler]

NextRegistration ==
  \/ Enable
  \/ SetTracerProvider
  \/ PatchLangChain
  \/ UnpatchLangChain
  \/ \E args \in ConstructorArgs : PatchedConstructor(args)
  \/ \E h \in AddableHandlers : PatchedAddHandler(h)

SpecRegistration == InitRegistration /\ [][NextRegistration]_vars

(* -------------------------------------------------------------------- C25 *)

\* h is an OpenTelemetryCallbackHandler, of either class of that name.
IsOpenTelemetryCallbackHandler(h) ==
  InstanceOf(h, CallbackHandlerClass) \/ InstanceOf(h, OTelCallbackHandlerClass)

\* The positions of list that hold an OpenTelemetryCallbackHandler.
Registrations(list) == {i \in DOMAIN list : IsOpenTelemetryCallbackHandler(list[i])}

\* C25: after any sequence of enable() calls, patched constructions and
\* patched addHandler calls the handler list of a callback manager holds at
\* most one OpenTelemetryCallbackHandler, and a call that registers one while
\* the list already holds one leaves the list as it was.
C25_NeverDuplicated ==
  [][/\ Cardinality(Registrations(handlers')) <= 1
     /\ (/\ lastRegistration'.op \in {"enable", "addHandler"}
         /\ IsOpenTelemetryCallbackHandler(lastRegistration'.handler)
         /\ Registrations(handlers) # {}) => handlers' = handlers]_vars

\* For the handler class langchain-instrumentation.ts tests for alone: the
\* wrapped constructor and addHandler never leave two of its objects in the
\* list.
C25_OneOfTheWrappedClass ==
  Cardinality({i \in DOMAIN handlers : InstanceOf(handlers[i], OTelCallbackHandlerClass)}) <= 1

====
